---- MODULE Spec2Model ----
(***************************************************************************)
(* A model of the route-recognizer of ember-routing (src/unnamed/part_000): *)
(* the segment model, the template parser, the trie of anchored per-segment *)
(* regular expressions, recognize / generate / handlersFor / hasRoute and  *)
(* the matrix-query codec.                                                  *)
(*                                                                          *)
(* A JavaScript string is a sequence of one-character strings, so that      *)
(* split, replace, charAt and substr are computed as the code computes     *)
(* them.  `undefined` and the boolean `true` are the one-element sequences  *)
(* Undefined and True, whose element is no character.                      *)
(***************************************************************************)
EXTENDS Naturals, Sequences, FiniteSets

VARIABLES states, names, nAdds, passed, last, emberRoute

vars == <<states, names, nAdds, passed, last, emberRoute>>

(***************************************************************************)
(* JavaScript values and string primitives                                  *)
(***************************************************************************)
Undefined == <<"undefined">>
True == <<"true">>

Min(a, b) == IF a < b THEN a ELSE b

\* String.prototype.charAt: the empty string out of range (1-based here)
charAt(s, i) == IF i >= 1 /\ i <= Len(s) THEN <<s[i]>> ELSE <<>>

\* String.prototype.substr(start) and substr(start, length), start 0-based
substrFrom(s, start) == SubSeq(s, start + 1, Len(s))
substr(s, start, length) == SubSeq(s, start + 1, Min(Len(s), start + length))

\* whether pat occurs in s at (1-based) position i
occursAt(s, pat, i) == i + Len(pat) - 1 <= Len(s) /\ SubSeq(s, i, i + Len(pat) - 1) = pat

\* String.prototype.indexOf, 1-based; 0 when pat does not occur
indexOf(s, pat) ==
  IF \E i \in 1..Len(s) : occursAt(s, pat, i)
  THEN CHOOSE i \in 1..Len(s) : occursAt(s, pat, i) /\ \A j \in 1..(i - 1) : ~occursAt(s, pat, j)
  ELSE 0

\* String.prototype.replace with a string pattern: the FIRST occurrence only
replace(s, pat, rep) ==
  LET i == indexOf(s, pat)
  IN IF i = 0 THEN s ELSE SubSeq(s, 1, i - 1) \o rep \o SubSeq(s, i + Len(pat), Len(s))

\* String.prototype.split with a one-character separator: a sequence of strings
RECURSIVE split(_, _)
split(s, sep) ==
  LET i == indexOf(s, sep)
  IN IF i = 0 THEN <<s>> ELSE <<SubSeq(s, 1, i - 1)>> \o split(SubSeq(s, i + 1, Len(s)), sep)

\* Array.prototype.join
RECURSIVE join(_, _)
join(strs, sep) ==
  IF Len(strs) = 0 THEN <<>>
  ELSE IF Len(strs) = 1 THEN strs[1]
  ELSE strs[1] \o sep \o join(Tail(strs), sep)

Range(f) == {f[i] : i \in DOMAIN f}

(***************************************************************************)
(* A JavaScript object (params, a query, queries) is a sequence of [k, v]   *)
(* pairs with distinct keys, in insertion order (the order of for-in).      *)
(***************************************************************************)
\* obj[k] = v: an existing key keeps its place
setKey(obj, k, v) ==
  IF \E i \in 1..Len(obj) : obj[i].k = k
  THEN [i \in 1..Len(obj) |-> IF obj[i].k = k THEN [k |-> k, v |-> v] ELSE obj[i]]
  ELSE Append(obj, [k |-> k, v |-> v])

\* whether obj[k] is set
has(obj, k) == \E i \in 1..Len(obj) : obj[i].k = k

\* obj[k]; Undefined for a key that is not set
lookup(obj, k) ==
  IF \E i \in 1..Len(obj) : obj[i].k = k
  THEN obj[CHOOSE i \in 1..Len(obj) : obj[i].k = k].v
  ELSE Undefined

\* the object as a set of pairs
pairsOf(obj) == {obj[i] : i \in 1..Len(obj)}

(***************************************************************************)
(* Regular expressions.  A regex is a sequence of tokens [t, x]:            *)
(*   bol / eol   the anchors ^ and $                                        *)
(*   lit         one escaped literal character, x = {c}                     *)
(*   capplus     a capture of one or more characters outside x              *)
(*               (the capture of "any character" has x = {})               *)
(*   optquery    queryRegex: an optional non-capturing group of ";" and a   *)
(*               capture of any number of characters outside x = {"/"}     *)
(***************************************************************************)
Bol == [t |-> "bol", x |-> {}]
Eol == [t |-> "eol", x |-> {}]
Lit(c) == [t |-> "lit", x |-> {c}]
CapPlus(excluded) == [t |-> "capplus", x |-> excluded]

\* var queryRegex: optionally, ";" followed by a capture of non-"/" characters
queryRegex == <<[t |-> "optquery", x |-> {"/"}]>>

\* the length of the longest run of characters outside x starting at s[j]
RECURSIVE runLength(_, _, _)
runLength(s, j, x) == IF j <= Len(s) /\ s[j] \notin x THEN 1 + runLength(s, j + 1, x) ELSE 0

NoMatch == [matched |-> FALSE, captures |-> <<>>]
Matched(caps) == [matched |-> TRUE, captures |-> caps]

\* The backtracking matcher: re[i..] against s[j..] with the captures so far;
\* greedy quantifiers try the longest repetition first.  NoMatch, or Matched.
RECURSIVE matchHere(_, _, _, _, _)
RECURSIVE tryLengths(_, _, _, _, _, _, _, _)
tryLengths(re, i, s, j, caps, skip, n, least) ==
  \* capture s[j+skip .. j+skip+n-1], then the rest; on failure a shorter one
  IF n < least THEN NoMatch
  ELSE LET r == matchHere(re, i + 1, s, j + skip + n,
                          Append(caps, SubSeq(s, j + skip, j + skip + n - 1)))
       IN IF r.matched THEN r ELSE tryLengths(re, i, s, j, caps, skip, n - 1, least)
matchHere(re, i, s, j, caps) ==
  IF i > Len(re) THEN Matched(caps)
  ELSE LET tok == re[i] IN
    CASE tok.t = "bol" -> IF j = 1 THEN matchHere(re, i + 1, s, j, caps) ELSE NoMatch
      [] tok.t = "eol" -> IF j = Len(s) + 1 THEN matchHere(re, i + 1, s, j, caps) ELSE NoMatch
      [] tok.t = "lit" -> IF j <= Len(s) /\ s[j] \in tok.x
                          THEN matchHere(re, i + 1, s, j + 1, caps) ELSE NoMatch
      [] tok.t = "capplus" -> tryLengths(re, i, s, j, caps, 0, runLength(s, j, tok.x), 1)
      [] tok.t = "optquery" ->
           LET taken == IF j <= Len(s) /\ s[j] = ";"
                        THEN tryLengths(re, i, s, j, caps, 1, runLength(s, j + 1, tok.x), 0)
                        ELSE NoMatch
           IN IF taken.matched THEN taken
              ELSE matchHere(re, i + 1, s, j, Append(caps, Undefined))

\* String.prototype.match(regex) for a non-global regex: NoMatch (null), or the
\* captures of the leftmost match (captures[k] is JavaScript's captures[k]).
RECURSIVE matchFrom(_, _, _)
matchFrom(re, s, start) ==
  IF start > Len(s) + 1 THEN NoMatch
  ELSE LET r == matchHere(re, 1, s, start, <<>>)
       IN IF r.matched THEN r ELSE matchFrom(re, s, start + 1)
match(s, re) == matchFrom(re, s, 1)

(***************************************************************************)
(* Segments                                                                *)
(***************************************************************************)
\* a handler identifier that is not set (segment.query of a segment that is
\* not the last one of its level; options.as of an unnamed registration)
NoHandler == "undefined"
NoName == "undefined"

StaticSegment(string) == [type |-> "static", string |-> string, query |-> NoHandler]
EpsilonSegment == [type |-> "epsilon", string |-> <<>>, query |-> NoHandler]
DynamicSegment(name) == [type |-> "dynamic", string |-> name, query |-> NoHandler]
StarSegment(name) == [type |-> "star", string |-> name, query |-> NoHandler]

\* string.replace(escapeRegex, '\\$1'): every character matches itself only
escapeRegex(string) == [i \in 1..Len(string) |-> Lit(string[i])]

\* segment.regex(): the fragment of the segment, a query group appended when
\* the segment carries a query marker
StaticRegex(seg) ==
  LET r == escapeRegex(seg.string) IN IF seg.query # NoHandler THEN r \o queryRegex ELSE r
DynamicRegex(seg) ==
  IF seg.query # NoHandler THEN <<CapPlus({"/", ";"})>> \o queryRegex ELSE <<CapPlus({"/"})>>
StarRegex(seg) ==
  IF seg.query # NoHandler THEN <<CapPlus({";"})>> \o queryRegex ELSE <<CapPlus({})>>
EpsilonRegex(seg) == queryRegex
regex(seg) ==
  CASE seg.type = "static" -> StaticRegex(seg)
    [] seg.type = "dynamic" -> DynamicRegex(seg)
    [] seg.type = "star" -> StarRegex(seg)
    [] seg.type = "epsilon" -> EpsilonRegex(seg)

\* segment.generate(params)
generateSegment(seg, params) ==
  CASE seg.type = "static" -> seg.string
    [] seg.type = "epsilon" -> <<>>
    [] OTHER -> IF lookup(params, seg.string) = Undefined
                THEN <<"u", "n", "d", "e", "f", "i", "n", "e", "d">>
                ELSE lookup(params, seg.string)

(***************************************************************************)
(* parse(route, names, types)                                               *)
(***************************************************************************)
NoTypes == [statics |-> 0, dynamics |-> 0, stars |-> 0]

\* one token of the split template, folded into [results, nms, types]
parseToken(segment, acc) ==
  IF Len(segment) >= 2 /\ segment[1] = ":"
  THEN [results |-> Append(acc.results, DynamicSegment(Tail(segment))),
        nms |-> Append(acc.nms, Tail(segment)),
        types |-> [acc.types EXCEPT !.dynamics = @ + 1]]
  ELSE IF Len(segment) >= 2 /\ segment[1] = "*"
  THEN [results |-> Append(acc.results, StarSegment(Tail(segment))),
        nms |-> Append(acc.nms, Tail(segment)),
        types |-> [acc.types EXCEPT !.stars = @ + 1]]
  ELSE IF segment = <<>> THEN acc
  ELSE [results |-> Append(acc.results, StaticSegment(segment)),
        nms |-> acc.nms,
        types |-> [acc.types EXCEPT !.statics = @ + 1]]

RECURSIVE parseTokens(_, _, _)
parseTokens(segments, i, acc) ==
  IF i > Len(segments) THEN acc ELSE parseTokens(segments, i + 1, parseToken(segments[i], acc))

\* the segments of the template, the parameter names pushed on nms and the
\* counters added to types
parse(route, nms, types) ==
  LET r == IF charAt(route, 1) = <<"/">> THEN substrFrom(route, 1) ELSE route
  IN parseTokens(split(r, <<"/">>), 1, [results |-> <<>>, nms |-> nms, types |-> types])

(***************************************************************************)
(* State: the trie of anchored segment regexes.  `states` is the heap of    *)
(* State objects in creation order; a State is named by its index.          *)
(***************************************************************************)
rootState == 1

\* new State(segmentRegex): no handlers, regex or types yet
State(segmentRegex) ==
  [segmentRegex |-> segmentRegex, nextStates |-> <<>>,
   accepting |-> FALSE, handlers |-> <<>>, regex |-> <<>>, types |-> NoTypes]

\* state.get(segmentRegex): the first child with that key; 0 for undefined
get(heap, state, segmentRegex) ==
  LET kids == heap[state].nextStates
      hits == {i \in 1..Len(kids) : heap[kids[i]].segmentRegex = segmentRegex}
  IN IF hits = {} THEN 0 ELSE kids[CHOOSE i \in hits : \A j \in hits : i <= j]

\* put making a new child the only child of the state
putReplacing(heap, state, segmentRegex) ==
  LET key == <<Bol>> \o segmentRegex \o <<Eol>>
      found == get(heap, state, key)
      fresh == Len(heap) + 1
  IN IF found # 0 THEN [heap |-> heap, state |-> found]
     ELSE [heap |-> [Append(heap, State(key)) EXCEPT ![state].nextStates = <<fresh>>],
           state |-> fresh]

\* put without the lookup by get: a child is created on every call
putFresh(heap, state, segmentRegex) ==
  LET key == <<Bol>> \o segmentRegex \o <<Eol>>
      fresh == Len(heap) + 1
  IN [heap |-> [Append(heap, State(key)) EXCEPT ![state].nextStates = Append(@, fresh)],
      state |-> fresh]

\* state.put(segmentRegex): [heap, state], the child with key ^segmentRegex$,
\* created and pushed on nextStates when there is none
put(heap, state, segmentRegex) ==
  LET key == <<Bol>> \o segmentRegex \o <<Eol>>
      found == get(heap, state, key)
      fresh == Len(heap) + 1
  IN IF found # 0 THEN [heap |-> heap, state |-> found]
     ELSE [heap |-> [Append(heap, State(key)) EXCEPT ![state].nextStates = Append(@, fresh)],
           state |-> fresh]

\* state.match(segment): the children whose regex matches, in child order
matchState(heap, state, segment) ==
  SelectSeq(heap[state].nextStates, LAMBDA c : match(segment, heap[c].segmentRegex).matched)

(***************************************************************************)
(* sortSolutions, recognizeSegment                                          *)
(***************************************************************************)
\* sortSolutions with its comparator reversed (b - a for a - b)
lessTypesReversed(a, b) ==
  IF a.stars # b.stars THEN b.stars < a.stars
  ELSE IF a.dynamics # b.dynamics THEN b.dynamics < a.dynamics
  ELSE IF a.statics # b.statics THEN b.statics < a.statics
  ELSE FALSE

\* the comparator of sortSolutions: negative, zero or positive as an order
\* on (stars, dynamics, statics); lessTypes(a, b) is "compare(a, b) < 0"
lessTypes(a, b) ==
  IF a.stars # b.stars THEN a.stars < b.stars
  ELSE IF a.dynamics # b.dynamics THEN a.dynamics < b.dynamics
  ELSE IF a.statics # b.statics THEN a.statics < b.statics
  ELSE FALSE

\* Array.prototype.sort with that comparator; stable, as ECMAScript 2019
\* requires: an insertion sort that keeps equal elements in their order
RECURSIVE insertSolution(_, _, _)
insertSolution(heap, sorted, st) ==
  IF sorted = <<>> THEN <<st>>
  ELSE IF lessTypes(heap[st].types, heap[Head(sorted)].types) THEN <<st>> \o sorted
  ELSE <<Head(sorted)>> \o insertSolution(heap, Tail(sorted), st)

RECURSIVE sortFrom(_, _, _, _)
sortFrom(heap, sts, i, sorted) ==
  IF i > Len(sts) THEN sorted ELSE sortFrom(heap, sts, i + 1, insertSolution(heap, sorted, sts[i]))
sortSolutions(heap, sts) == sortFrom(heap, sts, 1, <<>>)

RECURSIVE recognizeSegmentFrom(_, _, _, _)
recognizeSegmentFrom(heap, sts, i, segment) ==
  IF i > Len(sts) THEN <<>>
  ELSE matchState(heap, sts[i], segment) \o recognizeSegmentFrom(heap, sts, i + 1, segment)
recognizeSegment(heap, sts, segment) == recognizeSegmentFrom(heap, sts, 1, segment)

(***************************************************************************)
(* The query codec                                                          *)
(***************************************************************************)
\* r of deserializeQueryString
unescapeQuery(str) == replace(replace(str, <<"%", "3", "D">>, <<"=">>), <<"%", "3", "B">>, <<";">>)

RECURSIVE deserializePairs(_, _, _)
deserializePairs(pairs, i, query) ==
  IF i > Len(pairs) THEN query
  ELSE LET pair == split(pairs[i], <<"=">>)
       IN deserializePairs(pairs, i + 1,
            setKey(query, unescapeQuery(pair[1]),
                   IF Len(pair) > 1 THEN unescapeQuery(pair[2]) ELSE True))
deserializeQueryString(queryString) == deserializePairs(split(queryString, <<";">>), 1, <<>>)

\* r of serializeQuery
escapeQuery(str) ==
  replace(replace(str, <<";">>, <<"%", "2", "5", "3", "B">>), <<"=">>, <<"%", "2", "5", "3", "D">>)

\* query[k] + '': the boolean true becomes the string "true"
toString(v) == IF v = True THEN <<"t", "r", "u", "e">> ELSE v

\* if (query[k]): the empty string is falsy
truthy(v) == v # <<>> /\ v # Undefined

serializePair(p) ==
  IF truthy(p.v) THEN escapeQuery(p.k) \o <<"=">> \o escapeQuery(toString(p.v))
  ELSE escapeQuery(p.k)
serializeQuery(query) == join([i \in 1..Len(query) |-> serializePair(query[i])], <<";">>)

(***************************************************************************)
(* findHandler(state, path)                                                 *)
(***************************************************************************)
\* captures[k] of a match array; past its end JavaScript reads undefined
captureAt(captures, k) == IF k <= Len(captures) THEN captures[k] ELSE Undefined

\* handler.hasQuery: a property add never sets on the entry it pushes
hasQuery(handler) == "hasQuery" \in DOMAIN handler /\ handler.hasQuery

\* params[names[j]] = captures[currentCapture++] for j = 1..m
RECURSIVE bindParams(_, _, _, _, _)
bindParams(nms, j, captures, currentCapture, params) ==
  IF j > Len(nms) THEN params
  ELSE bindParams(nms, j + 1, captures, currentCapture + 1,
                  setKey(params, nms[j], captureAt(captures, currentCapture)))

\* whether the loop over the handlers reads captures[...] at all: with a null
\* captures that read is a TypeError
readsCaptures(handlers) == \E i \in 1..Len(handlers) : Len(handlers[i].names) > 0 \/ hasQuery(handlers[i])

RECURSIVE findHandlerFrom(_, _, _, _, _)
findHandlerFrom(handlers, i, captures, currentCapture, result) ==
  IF i > Len(handlers) THEN result
  ELSE LET handler == handlers[i]
           params == bindParams(handler.names, 1, captures, currentCapture, <<>>)
           next == currentCapture + Len(handler.names)
           queryString == captureAt(captures, next)
           query == IF hasQuery(handler) /\ truthy(queryString)
                    THEN deserializeQueryString(queryString) ELSE <<>>
       IN findHandlerFrom(handlers, i + 1, captures,
                          IF hasQuery(handler) THEN next + 1 ELSE next,
                          Append(result, [handler |-> handler.handler, params |-> params,
                                          isDynamic |-> Len(handler.names) > 0, query |-> query]))

\* the outcome of a call: a returned handler chain, the undefined of "no
\* match", or a thrown error
Returned(chain) == [kind |-> "chain", chain |-> chain, error |-> ""]
NoMatchOutcome == [kind |-> "undefined", chain |-> <<>>, error |-> ""]
Thrown(error) == [kind |-> "throw", chain |-> <<>>, error |-> error]

findHandler(heap, state, path) ==
  LET m == match(path, heap[state].regex)
  IN IF ~m.matched
     THEN IF readsCaptures(heap[state].handlers) THEN Thrown("TypeError")
          ELSE Returned(findHandlerFrom(heap[state].handlers, 1, <<>>, 1, <<>>))
     ELSE Returned(findHandlerFrom(heap[state].handlers, 1, m.captures, 1, <<>>))

(***************************************************************************)
(* RouteRecognizer.prototype.add(routes, options)                           *)
(***************************************************************************)
\* segment.query = route.handler on the last segment of a level
markLast(segments, handler) ==
  [j \in 1..Len(segments) |-> IF j = Len(segments) THEN [segments[j] EXCEPT !.query = handler]
                              ELSE segments[j]]

\* the inner loop of add: regex += '/' + segmentRegex and the descent by put
RECURSIVE putSegments(_, _, _)
putSegments(segments, j, acc) ==
  IF j > Len(segments) THEN acc
  ELSE LET segmentRegex == regex(segments[j])
           p == put(acc.heap, acc.currentState, segmentRegex)
       IN putSegments(segments, j + 1,
            [acc EXCEPT !.heap = p.heap, !.currentState = p.state,
                        !.regex = @ \o <<Lit("/")>> \o segmentRegex, !.isEmpty = FALSE])

\* the outer loop of add, over the levels of the chain
RECURSIVE addLevels(_, _, _)
addLevels(routes, i, acc) ==
  IF i > Len(routes) THEN acc
  ELSE LET route == routes[i]
           parsed == parse(route.path, <<>>, acc.types)
           segments == markLast(parsed.results, route.handler)
           put1 == putSegments(segments, 1, [acc EXCEPT !.types = parsed.types])
       IN addLevels(routes, i + 1,
            [put1 EXCEPT !.allSegments = @ \o segments,
                         !.handlers = Append(@, [handler |-> route.handler, names |-> parsed.nms])])

\* an entirely empty registration: one epsilon segment with the query marker
\* of the last level, under the trie key of the empty fragment
addEpsilon(acc) ==
  IF ~acc.isEmpty THEN acc
  ELSE LET p == put(acc.heap, acc.currentState, <<>>)
           e == [EpsilonSegment EXCEPT !.query = acc.handlers[Len(acc.handlers)].handler]
       IN [acc EXCEPT !.heap = p.heap, !.currentState = p.state,
                      !.regex = @ \o <<Lit("/")>> \o regex(e),
                      !.allSegments = Append(@, e)]

\* add leaving a state that is already terminal as it is
addKeeping(heap, registry, routes, as) ==
  LET acc == addEpsilon(addLevels(routes, 1,
               [heap |-> heap, currentState |-> rootState, regex |-> <<Bol>>,
                types |-> NoTypes, handlers |-> <<>>, allSegments |-> <<>>, isEmpty |-> TRUE]))
      heap1 == IF acc.heap[acc.currentState].accepting THEN acc.heap
               ELSE [acc.heap EXCEPT ![acc.currentState].handlers = acc.handlers,
                                     ![acc.currentState].accepting = TRUE,
                                     ![acc.currentState].regex = acc.regex \o <<Eol>>,
                                     ![acc.currentState].types = acc.types]
      entry == [segments |-> acc.allSegments, handlers |-> acc.handlers]
  IN [heap |-> heap1,
      registry |-> IF as # NoName
                   THEN [n \in DOMAIN registry \cup {as} |-> IF n = as THEN entry ELSE registry[n]]
                   ELSE registry]

\* [heap, registry] after add(routes, {as: as})
add(heap, registry, routes, as) ==
  LET acc == addEpsilon(addLevels(routes, 1,
               [heap |-> heap, currentState |-> rootState, regex |-> <<Bol>>,
                types |-> NoTypes, handlers |-> <<>>, allSegments |-> <<>>, isEmpty |-> TRUE]))
      heap1 == [acc.heap EXCEPT ![acc.currentState].handlers = acc.handlers,
                                ![acc.currentState].accepting = TRUE,
                                ![acc.currentState].regex = acc.regex \o <<Eol>>,
                                ![acc.currentState].types = acc.types]
      entry == [segments |-> acc.allSegments, handlers |-> acc.handlers]
  IN [heap |-> heap1,
      registry |-> IF as # NoName
                   THEN [n \in DOMAIN registry \cup {as} |-> IF n = as THEN entry ELSE registry[n]]
                   ELSE registry]

(***************************************************************************)
(* handlersFor, hasRoute, generate                                          *)
(***************************************************************************)
Generated(string) == [kind |-> "string", string |-> string, error |-> ""]
ThrownString(error) == [kind |-> "throw", string |-> <<>>, error |-> error]

\* this.names is a plain object: besides the entries add has set, names[name]
\* finds the members every object inherits from Object.prototype, which are
\* functions (truthy, and without segments or handlers)
ObjectPrototypeNames == {"constructor", "toString", "valueOf", "hasOwnProperty"}
isOwn(registry, name) == name \in DOMAIN registry
isInherited(registry, name) == name \notin DOMAIN registry /\ name \in ObjectPrototypeNames

hasRoute(registry, name) == isOwn(registry, name) \/ isInherited(registry, name)

\* route.handlers.length of a route that has no handlers is a TypeError
handlersFor(registry, name) ==
  IF ~hasRoute(registry, name) THEN Thrown("There is no route named")
  ELSE IF isInherited(registry, name) THEN Thrown("TypeError")
  ELSE Returned(registry[name].handlers)

\* generateOne without the test of the encoded query: the suffix is appended
\* whenever queries[segment.query] is set
generateOneUntested(segment, params, queries) ==
  <<"/">> \o generateSegment(segment, params)
  \o (IF segment.query # NoHandler /\ has(queries, segment.query)
      THEN <<";">> \o serializeQuery(lookup(queries, segment.query)) ELSE <<>>)

generateOne(segment, params, queries) ==
  LET queryString == IF segment.query # NoHandler /\ has(queries, segment.query)
                     THEN serializeQuery(lookup(queries, segment.query)) ELSE <<>>
  IN <<"/">> \o generateSegment(segment, params)
     \o (IF queryString # <<>> THEN <<";">> \o queryString ELSE <<>>)

RECURSIVE generateFrom(_, _, _, _)
generateFrom(segments, i, params, queries) ==
  IF i > Len(segments) THEN <<>>
  ELSE generateOne(segments[i], params, queries) \o generateFrom(segments, i + 1, params, queries)

\* segments.length of a route that has no segments is a TypeError
generate(registry, name, params, queries) ==
  IF ~hasRoute(registry, name) THEN ThrownString("There is no route named")
  ELSE IF isInherited(registry, name) THEN ThrownString("TypeError")
  ELSE LET output == generateFrom(registry[name].segments, 1, params, queries)
       IN Generated(IF charAt(output, 1) # <<"/">> THEN <<"/">> \o output ELSE output)

(***************************************************************************)
(* RouteRecognizer.prototype.recognize(path)                                *)
(***************************************************************************)
\* the leading separator added and a trailing one stripped; pathLen is the
\* length of the path as it was passed in
normalize(path) ==
  LET pathLen == Len(path)
      path1 == IF charAt(path, 1) # <<"/">> THEN <<"/">> \o path ELSE path
  IN IF pathLen > 1 /\ charAt(path1, pathLen) = <<"/">> THEN substr(path1, 0, pathLen - 1)
     ELSE path1

\* the loop over the segments: the frontier after segment i, or the empty
\* frontier at which the loop breaks
RECURSIVE walk(_, _, _, _)
walk(heap, sts, segments, i) ==
  IF i > Len(segments) THEN sts
  ELSE LET next == recognizeSegment(heap, sts, segments[i])
       IN IF next = <<>> THEN <<>> ELSE walk(heap, next, segments, i + 1)

\* the frontier recognize ends with, the first (empty) token skipped
frontier(heap, path) == walk(heap, <<rootState>>, split(normalize(path), <<"/">>), 2)

\* the accepting states of the frontier, sorted
solutions(heap, path) ==
  sortSolutions(heap, SelectSeq(frontier(heap, path), LAMBDA st : heap[st].accepting))

\* recognize handing findHandler the path as it was passed in
recognizeUnnormalized(heap, path) ==
  LET sols == solutions(heap, path)
  IN IF sols = <<>> THEN NoMatchOutcome ELSE findHandler(heap, sols[1], path)

recognize(heap, path) ==
  LET sols == solutions(heap, path)
  IN IF sols = <<>> THEN NoMatchOutcome ELSE findHandler(heap, sols[1], normalize(path))

(***************************************************************************)
(* Ember.Route: the redirect bookkeeping of setup, transitionTo and         *)
(* replaceWith.  A route is a record of its fields redirected and           *)
(* _checkingRedirect (a field that was never assigned reads "undefined"),   *)
(* of whether it defines the deprecated hooks, and of where its setup is:   *)
(* pc is "redirect" while setup is inside its call of the redirect hook.    *)
(* calls lists what the current or the last setup has called so far,        *)
(* returned is what the last setup returned, and transitions counts the     *)
(* calls of router.transitionTo and router.replaceWith.                     *)
(***************************************************************************)
Route(setupControllers, renderTemplates) ==
  [redirected |-> "undefined", checkingRedirect |-> "undefined",
   setupControllers |-> setupControllers, renderTemplates |-> renderTemplates,
   pc |-> "idle", context |-> "undefined", controller |-> "undefined",
   calls |-> <<>>, returned |-> "none", transitions |-> 0]

\* transitionTo without the test of _checkingRedirect
transitionToUnguarded(r) ==
  [r EXCEPT !.redirected = "true",
            !.calls = IF r.pc = "redirect" THEN Append(@, "transitionTo") ELSE @,
            !.transitions = @ + 1]

\* this.transitionTo(...): the mark, then router.transitionTo
transitionTo(r) ==
  [r EXCEPT !.redirected = IF r.checkingRedirect = "true" THEN "true" ELSE @,
            !.calls = IF r.pc = "redirect" THEN Append(@, "transitionTo") ELSE @,
            !.transitions = @ + 1]

\* this.replaceWith(...): the mark, then router.replaceWith
replaceWith(r) ==
  [r EXCEPT !.redirected = IF r.checkingRedirect = "true" THEN "true" ELSE @,
            !.calls = IF r.pc = "redirect" THEN Append(@, "replaceWith") ELSE @,
            !.transitions = @ + 1]

\* setup(context) up to its call of the redirect hook
setup(r, context) ==
  [r EXCEPT !.redirected = "false", !.checkingRedirect = "true",
            !.pc = "redirect", !.context = context,
            !.calls = <<"redirect">>, !.returned = "none"]

\* setup from the return of the redirect hook on; controller is what
\* controllerFor returns
setupAfterRedirect(r, controller) ==
  IF r.redirected = "true"
  THEN [r EXCEPT !.checkingRedirect = "false", !.pc = "idle", !.returned = "false"]
  ELSE [r EXCEPT !.checkingRedirect = "false", !.pc = "idle", !.returned = "undefined",
                 !.controller = IF controller # "undefined" THEN controller ELSE @,
                 !.calls = @ \o <<"controllerFor">>
                             \o (IF controller # "undefined" THEN <<"set model">> ELSE <<>>)
                             \o <<IF r.setupControllers THEN "setupControllers" ELSE "setupController">>
                             \o <<IF r.renderTemplates THEN "renderTemplates" ELSE "renderTemplate">>]

(***************************************************************************)
(* The inputs of the calls.  One letter stands for a literal of the routes  *)
(* of the documentation: p for posts, n for new, f for files; i and s are   *)
(* the parameter names id and path.                                         *)
(***************************************************************************)
MaxAdds == 2

Level(path, handler) == [path |-> path, handler |-> handler]

Chains ==
  { <<Level(<<"/", "p">>, "posts")>>,
    <<Level(<<"/", "p", "/", "n">>, "new")>>,
    <<Level(<<"/", "p", "/", ":", "i">>, "post")>>,
    <<Level(<<"/", "p">>, "posts"), Level(<<"/", ":", "i">>, "post")>>,
    <<Level(<<"/", ":", "i", "/", "n">>, "edit")>>,
    <<Level(<<"/", "f", "/", "*", "s">>, "file")>>,
    <<Level(<<>>, "index")>> }

\* the names asked about, and the ones a registration is given
RouteNames == {"R", "nope", "constructor"}
AsNames == {"R", NoName}

ParamValues == {<<"n">>, <<"5">>}

ParamObjects == {<<[k |-> <<"i">>, v |-> a], [k |-> <<"s">>, v |-> a]>> : a \in ParamValues}

\* no queries at all, or the query {k: "n"} for the handlers posts, post and index
QueriesObjects ==
  { <<>>,
    <<[k |-> "posts", v |-> <<[k |-> <<"k">>, v |-> <<"n">>]>>],
      [k |-> "post", v |-> <<[k |-> <<"k">>, v |-> <<"n">>]>>],
      [k |-> "index", v |-> <<[k |-> <<"k">>, v |-> <<"n">>]>>]>> }

Paths ==
  { <<>>, <<"/">>,
    <<"p">>, <<"/", "p">>, <<"p", "/">>, <<"/", "p", "/">>,
    <<"p", "/", "n">>, <<"/", "p", "/", "n">>, <<"/", "p", "/", "n", "/">>,
    <<"/", "f", "/", "n">>, <<"/", "f", "/", "p", "/", "n">>,
    <<"/", "p", ";", "k", "=", "n", ";", "a">>,
    <<"/", "p", ";", "k", "/", "5">>,
    <<"/", "n", "/", "n">> }

(***************************************************************************)
(* The state machine: a RouteRecognizer and the calls made on it.  `last`   *)
(* records the last call and what it returned or threw, nAdds counts the    *)
(* add calls and passed holds the names they were given as options.as.      *)
(***************************************************************************)
NoCall == [name |-> NoName, params |-> <<>>, queries |-> <<>>]

\* new RouteRecognizer()
Init ==
  /\ states = <<State(<<>>)>>
  /\ names = [n \in {} |-> 0]
  /\ nAdds = 0
  /\ passed = {}
  /\ last = [op |-> "new"]
  /\ emberRoute = Route(FALSE, FALSE)

Add(routes, as) ==
  /\ nAdds < MaxAdds
  /\ LET r == add(states, names, routes, as)
     IN /\ states' = r.heap
        /\ names' = r.registry
  /\ nAdds' = nAdds + 1
  /\ passed' = IF as # NoName THEN passed \cup {as} ELSE passed
  /\ last' = [op |-> "add", routes |-> routes, as |-> as]
  /\ UNCHANGED emberRoute

\* recognize sorting in place the children of the root instead of its own
\* array of solutions
RecognizeSortingInPlace(path) ==
  /\ last' = [op |-> "recognize", path |-> path, out |-> recognize(states, path), of |-> NoCall]
  /\ states' = [states EXCEPT ![rootState].nextStates = sortSolutions(states, @)]
  /\ UNCHANGED <<names, nAdds, passed, emberRoute>>

Recognize(path) ==
  /\ last' = [op |-> "recognize", path |-> path, out |-> recognize(states, path),
              of |-> IF last.op = "generate" /\ last.out.kind = "string" /\ last.out.string = path
                     THEN [name |-> last.name, params |-> last.params, queries |-> last.queries]
                     ELSE NoCall]
  /\ UNCHANGED <<states, names, nAdds, passed, emberRoute>>

\* the paths a caller has at hand: the given ones and the one just generated
PathsAtHand ==
  Paths \cup (IF last.op = "generate" /\ last.out.kind = "string" THEN {last.out.string} ELSE {})

Generate(name, params, queries) ==
  /\ last' = [op |-> "generate", name |-> name, params |-> params, queries |-> queries,
              out |-> generate(names, name, params, queries)]
  /\ UNCHANGED <<states, names, nAdds, passed, emberRoute>>

HandlersFor(name) ==
  /\ last' = [op |-> "handlersFor", name |-> name, out |-> handlersFor(names, name)]
  /\ UNCHANGED <<states, names, nAdds, passed, emberRoute>>

HasRoute(name) ==
  /\ last' = [op |-> "hasRoute", name |-> name, out |-> hasRoute(names, name)]
  /\ UNCHANGED <<states, names, nAdds, passed, emberRoute>>

Next ==
  \/ \E routes \in Chains, as \in AsNames : Add(routes, as)
  \/ \E path \in PathsAtHand : Recognize(path)
  \/ \E name \in RouteNames, params \in ParamObjects, queries \in QueriesObjects :
       Generate(name, params, queries)
  \/ \E name \in RouteNames : HandlersFor(name)
  \/ \E name \in RouteNames : HasRoute(name)

Spec == Init /\ [][Next]_vars

(***************************************************************************)
(* Notions the properties are stated with, read off the trie and the input  *)
(* rather than off the run of recognize.                                    *)
(***************************************************************************)
\* the input segments of a path: its tokens after the leading separator
inputSegments(path) == Tail(split(normalize(path), <<"/">>))

\* the states from the child of the root down to st
parentOf(heap, st) == CHOOSE q \in 1..Len(heap) : st \in Range(heap[q].nextStates)
RECURSIVE lineage(_, _)
lineage(heap, st) == IF st = rootState THEN <<>> ELSE Append(lineage(heap, parentOf(heap, st)), st)

\* st is reached by the path: one state of its lineage per input segment,
\* each matching its segment
reachedBy(heap, st, path) ==
  LET line == lineage(heap, st)
      segs == inputSegments(path)
  IN /\ Len(line) = Len(segs)
     /\ \A k \in 1..Len(line) : match(segs[k], heap[line[k]].segmentRegex).matched

\* the terminal states reachable for the path
terminalsFor(heap, path) == {st \in 1..Len(heap) : heap[st].accepting /\ reachedBy(heap, st, path)}

\* the kinds of the segments on the way to st, counted from the trie keys
isStaticKey(key) == Len(key) > 2 /\ key[2].t = "lit"
isDynamicKey(key) == Len(key) > 2 /\ key[2].t = "capplus" /\ "/" \in key[2].x
isStarKey(key) == Len(key) > 2 /\ key[2].t = "capplus" /\ "/" \notin key[2].x
countOf(heap, st, Kind(_)) ==
  Cardinality({k \in 1..Len(lineage(heap, st)) : Kind(heap[lineage(heap, st)[k]].segmentRegex)})
tupleOf(heap, st) ==
  <<countOf(heap, st, isStarKey), countOf(heap, st, isDynamicKey), countOf(heap, st, isStaticKey)>>

\* the lexicographic order on (stars, dynamics, statics)
lexLeq(a, b) ==
  \/ a[1] < b[1]
  \/ a[1] = b[1] /\ a[2] < b[2]
  \/ a[1] = b[1] /\ a[2] = b[2] /\ a[3] <= b[3]

handlerIds(entries) == [l \in 1..Len(entries) |-> entries[l].handler]

\* the registered chain a terminal's handlers come from, and its segments
\* level by level
chainOf(handlers) ==
  CHOOSE c \in Chains : handlerIds(c) = handlerIds(handlers)
levelSegments(chain) == [l \in 1..Len(chain) |-> parse(chain[l].path, <<>>, NoTypes).results]
RECURSIVE segmentsBefore(_, _)
segmentsBefore(chain, l) ==
  IF l = 1 THEN 0 ELSE segmentsBefore(chain, l - 1) + Len(levelSegments(chain)[l - 1])

\* the text before, and the text after, the first ";" of an input segment
beforeQuery(seg) == IF indexOf(seg, <<";">>) = 0 THEN seg ELSE SubSeq(seg, 1, indexOf(seg, <<";">>) - 1)
afterQuery(seg) == SubSeq(seg, indexOf(seg, <<";">>) + 1, Len(seg))

\* the parameters level l of the chain declares, each with the text its own
\* segment matched: the whole input segment, or the part before the matrix
\* suffix for the last segment of the level
ownParams(chain, l, path) ==
  LET segs == levelSegments(chain)[l]
      off == segmentsBefore(chain, l)
      input == inputSegments(path)
  IN {[k |-> segs[j].string,
       v |-> IF j = Len(segs) THEN beforeQuery(input[off + j]) ELSE input[off + j]] :
        j \in {j \in 1..Len(segs) : segs[j].type \in {"dynamic", "star"}}}

\* the matrix suffix of the input segment matched by the last segment of
\* level l; <<>> when the level has no segment or the segment no suffix
ownSuffix(chain, l, path) ==
  LET segs == levelSegments(chain)[l]
      seg == inputSegments(path)[segmentsBefore(chain, l) + Len(segs)]
  IN IF Len(segs) = 0 \/ indexOf(seg, <<";">>) = 0 THEN <<>> ELSE afterQuery(seg)

\* the terminal recognize settles on
winner(heap, path) == solutions(heap, path)[1]

(***************************************************************************)
(* Properties                                                               *)
(***************************************************************************)
paramsOf(chain) == UNION {pairsOf(chain[l].params) : l \in 1..Len(chain)}
declaredNames(handlers) == UNION {Range(handlers[l].names) : l \in 1..Len(handlers)}
noStar(entry) == \A k \in 1..Len(entry.segments) : entry.segments[k].type # "star"

\* no terminal reachable for the path belongs to another registration
unambiguous(heap, entry, path) ==
  \A st \in terminalsFor(heap, path) : heap[st].handlers = entry.handlers

\* the last call recognized the path that generate(name, params, {}) returned
\* for a registered, star-free and unambiguous route
isRoundTrip ==
  /\ last.op = "recognize"
  /\ last.of.name # NoName
  /\ last.of.queries = <<>>
  /\ noStar(names[last.of.name])
  /\ unambiguous(states, names[last.of.name], last.path)

\* C1: recognize(generate(R, P, {})) of a registered, non-ambiguous route
\* without a star segment is a match whose extracted params, taken together,
\* are the declared parameters with their values in P.
RoundTrip ==
  isRoundTrip =>
    /\ last.out.kind = "chain"
    /\ paramsOf(last.out.chain) =
         {pr \in pairsOf(last.of.params) : pr.k \in declaredNames(names[last.of.name].handlers)}

\* C2: recognize returns one entry per level of the winning registration, in
\* outer-to-inner order, and the params of each entry map exactly the
\* parameters that level declares to the text its own segments matched.
ParamsPerLevel ==
  (last.op = "recognize" /\ last.out.kind = "chain") =>
    LET handlers == states[winner(states, last.path)].handlers
        chain == chainOf(handlers)
    IN /\ handlerIds(last.out.chain) = handlerIds(chain)
       /\ \A l \in 1..Len(chain) :
            pairsOf(last.out.chain[l].params) = ownParams(chain, l, last.path)

\* C3: the query of each returned entry is the decoding of the matrix suffix
\* of the input segment matched by the last segment of its level, and the
\* empty mapping when there is no suffix.
QueryOwnership ==
  (last.op = "recognize" /\ last.out.kind = "chain") =>
    LET chain == chainOf(states[winner(states, last.path)].handlers)
    IN \A l \in 1..Len(chain) :
         pairsOf(last.out.chain[l].query) =
           (IF ownSuffix(chain, l, last.path) = <<>> THEN {}
            ELSE pairsOf(deserializeQueryString(ownSuffix(chain, l, last.path))))

\* the route /f/*s of handler file is the only registration
onlyFileRoute ==
  /\ \E st \in 1..Len(states) : states[st].accepting /\ handlerIds(states[st].handlers) = <<"file">>
  /\ \A st \in 1..Len(states) : states[st].accepting => handlerIds(states[st].handlers) = <<"file">>

\* the path is /f/ followed by one or more non-empty segments
underFiles(path) ==
  /\ Len(inputSegments(path)) >= 2
  /\ inputSegments(path)[1] = <<"f">>
  /\ \A k \in 2..Len(inputSegments(path)) : inputSegments(path)[k] # <<>>

\* C4: with /f/*s registered, every path /f/ followed by one or more
\* non-empty segments is a match for file, the parameter s bound to the
\* whole remainder, separators included.
StarCatchAll ==
  (last.op = "recognize" /\ onlyFileRoute /\ underFiles(last.path)) =>
    /\ last.out.kind = "chain"
    /\ handlerIds(last.out.chain) = <<"file">>
    /\ pairsOf(last.out.chain[1].params) =
         {[k |-> <<"s">>, v |-> join(Tail(inputSegments(last.path)), <<"/">>)]}

\* the terminals of the path whose tuple no other terminal of the path beats
leastTerminals(heap, path) ==
  {st \in terminalsFor(heap, path) :
     \A other \in terminalsFor(heap, path) : lexLeq(tupleOf(heap, st), tupleOf(heap, other))}

registered(ids) == \E st \in 1..Len(states) : states[st].accepting /\ handlerIds(states[st].handlers) = ids

\* C5: when more than one terminal is reachable for the path, recognize
\* returns the handlers of a terminal whose (stars, dynamics, statics), counted
\* over all its levels, is lexicographically least; with /p/n and /p/:i both
\* registered, /p/n is recognized as the handler of /p/n.
Disambiguation ==
  (last.op = "recognize" /\ Cardinality(terminalsFor(states, last.path)) > 1) =>
    /\ last.out.kind = "chain"
    /\ \E st \in leastTerminals(states, last.path) :
         handlerIds(last.out.chain) = handlerIds(states[st].handlers)
    /\ (registered(<<"new">>) /\ registered(<<"post">>) /\ last.path = <<"/", "p", "/", "n">>)
         => handlerIds(last.out.chain) = <<"new">>

DisambiguationWitness ==
  /\ last.op = "recognize"
  /\ last.path = <<"/", "p", "/", "n">>
  /\ registered(<<"new">>) /\ registered(<<"post">>)
  /\ Cardinality(terminalsFor(states, last.path)) > 1
  /\ handlerIds(last.out.chain) = <<"new">>

nameAnswer(call, given) ==
  /\ call.op = "hasRoute" => call.out = (call.name \in given)
  /\ call.op \in {"generate", "handlersFor"} =>
       /\ call.name \notin given =>
            call.out.kind = "throw" /\ call.out.error = "There is no route named"
       /\ call.name \in given => call.out.error # "There is no route named"

\* C7: for a name never passed as options.as hasRoute is false and generate
\* and handlersFor throw "There is no route named", the trie and the registry
\* left as they were; for a name that was passed hasRoute is true and neither
\* throws that error.
UnknownNames ==
  [][ /\ nameAnswer(last', passed')
      /\ last'.op \in {"hasRoute", "generate", "handlersFor"} => UNCHANGED <<states, names>> ]_vars

\* C8: a missing leading separator and a single trailing separator never
\* change the result: recognize(p) = recognize("/" + p) for a p that does not
\* start with the separator, and recognize(p + "/") = recognize(p) for a p
\* that does not end with it.
InputNormalization ==
  last.op = "recognize" =>
    /\ charAt(last.path, 1) # <<"/">> => last.out = recognize(states, <<"/">> \o last.path)
    /\ (last.path # <<>> /\ charAt(last.path, Len(last.path)) # <<"/">>)
         => recognize(states, last.path \o <<"/">>) = last.out

(***************************************************************************)
(* The query codec on its own: a query object is drawn, serialized, and the *)
(* string deserialized.                                                     *)
(***************************************************************************)
MaxQueryLen == 2
MaxPairs == 2

QueryChars == {"a", ";", "="}

RECURSIVE stringsOfLen(_)
stringsOfLen(n) ==
  IF n = 0 THEN {<<>>} ELSE {Append(str, c) : str \in stringsOfLen(n - 1), c \in QueryChars}
QueryStrings == UNION {stringsOfLen(n) : n \in 0..MaxQueryLen}
QueryKeys == QueryStrings \ {<<>>}
QueryValues == QueryStrings \cup {True}

RECURSIVE objectsOfSize(_)
objectsOfSize(n) ==
  IF n = 0 THEN {<<>>}
  ELSE {Append(obj, [k |-> key, v |-> val]) :
          obj \in objectsOfSize(n - 1), key \in QueryKeys, val \in QueryValues}
QueryObjects ==
  {obj \in UNION {objectsOfSize(n) : n \in 1..MaxPairs} :
     \A i, j \in 1..Len(obj) : obj[i].k = obj[j].k => i = j}

InitCodec ==
  /\ states = <<State(<<>>)>>
  /\ names = [n \in {} |-> 0]
  /\ nAdds = 0
  /\ passed = {}
  /\ last \in {[op |-> "query", query |-> query] : query \in QueryObjects}
  /\ emberRoute = Route(FALSE, FALSE)

SerializeQuery ==
  /\ last.op = "query"
  /\ last' = [op |-> "serializeQuery", query |-> last.query, out |-> serializeQuery(last.query)]
  /\ UNCHANGED <<states, names, nAdds, passed, emberRoute>>

DeserializeQueryString ==
  /\ last.op = "serializeQuery"
  /\ last' = [op |-> "deserializeQueryString", query |-> last.query, string |-> last.out,
              out |-> deserializeQueryString(last.out)]
  /\ UNCHANGED <<states, names, nAdds, passed, emberRoute>>

NextCodec == SerializeQuery \/ DeserializeQueryString

SpecCodec == InitCodec /\ [][NextCodec]_vars

\* a string without a separator or an escape character
plain(str) == \A i \in 1..Len(str) : str[i] \notin {";", "=", "%"}
plainObject(obj) == \A i \in 1..Len(obj) : plain(obj[i].k) /\ (obj[i].v = True \/ plain(obj[i].v))

\* C9: decoding the encoding of a mapping whose values are plain strings, the
\* empty string included, or the boolean true gives back the same set of
\* key/value pairs.
QueryRoundTrip ==
  (last.op = "deserializeQueryString" /\ plainObject(last.query)) =>
    pairsOf(last.out) = pairsOf(last.query)

\* the number of times the character c occurs in str
occurrences(str, c) == Cardinality({i \in 1..Len(str) : str[i] = c})

\* C10: every ";" and "=" inside a key or a value is escaped, so that the
\* encoding of n pairs splits on ";" into exactly n pairs, each with at most
\* one "=".
SeparatorsEscaped ==
  last.op = "serializeQuery" =>
    /\ Len(split(last.out, <<";">>)) = Len(last.query)
    /\ occurrences(last.out, ";") = Len(last.query) - 1
    /\ \A i \in 1..Len(split(last.out, <<";">>)) : occurrences(split(last.out, <<";">>)[i], "=") <= 1

(***************************************************************************)
(* generate on its own: registrations and generate calls with parameter     *)
(* values and query mappings that include the empty ones.                   *)
(***************************************************************************)
HandlerSeq == <<"posts", "new", "post", "edit", "file", "index">>

\* the queries object that holds the mapping q for every handler
queriesForAll(q) == [h \in 1..Len(HandlerSeq) |-> [k |-> HandlerSeq[h], v |-> q]]

GenerateParams == {<<[k |-> <<"i">>, v |-> a], [k |-> <<"s">>, v |-> a]>> : a \in {<<"n">>, <<>>}}

\* {}, and for every handler {}, {k: "n"} or {"": ""}
GenerateQueries ==
  { <<>>,
    queriesForAll(<<>>),
    queriesForAll(<<[k |-> <<"k">>, v |-> <<"n">>]>>),
    queriesForAll(<<[k |-> <<>>, v |-> <<>>]>>) }

NextGenerate ==
  \/ \E routes \in Chains, as \in AsNames : Add(routes, as)
  \/ \E name \in RouteNames, params \in GenerateParams, queries \in GenerateQueries :
       Generate(name, params, queries)

SpecGenerate == Init /\ [][NextGenerate]_vars

\* the full segment sequence of a registered chain, read off the chain: the
\* segments of its levels in order, the last one of each level carrying the
\* handler of the level as its query marker; one marked epsilon segment for a
\* chain without segments
RECURSIVE chainSegments(_, _)
chainSegments(chain, l) ==
  IF l > Len(chain) THEN <<>>
  ELSE markLast(levelSegments(chain)[l], chain[l].handler) \o chainSegments(chain, l + 1)
fullSegments(chain) ==
  IF chainSegments(chain, 1) # <<>> THEN chainSegments(chain, 1)
  ELSE <<[EpsilonSegment EXCEPT !.query = chain[Len(chain)].handler]>>

\* the rendered text of a segment
renderedText(seg, params) ==
  CASE seg.type = "static" -> seg.string
    [] seg.type \in {"dynamic", "star"} -> lookup(params, seg.string)
    [] seg.type = "epsilon" -> <<>>

\* queries[marker] is a non-empty mapping; its encoding is non-empty
isNonEmptyMapping(queries, marker) ==
  marker # NoHandler /\ has(queries, marker) /\ lookup(queries, marker) # <<>>
hasEncoding(queries, marker) ==
  marker # NoHandler /\ has(queries, marker) /\ serializeQuery(lookup(queries, marker)) # <<>>

RECURSIVE concat(_)
concat(strings) == IF strings = <<>> THEN <<>> ELSE Head(strings) \o concat(Tail(strings))

\* separator + rendered text per segment, ";" + encoded query appended after
\* the segments of the set `with`
rendering(segs, params, queries, with) ==
  concat([j \in 1..Len(segs) |->
            <<"/">> \o renderedText(segs[j], params)
            \o (IF j \in with THEN <<";">> \o serializeQuery(lookup(queries, segs[j].query))
                ELSE <<>>)])

\* the last call is generate for a name add has registered
generatedRegistered == last.op = "generate" /\ isOwn(names, last.name)
generatedSegments == fullSegments(chainOf(names[last.name].handlers))

\* C11 as stated: the concatenation, the query appended exactly for the
\* marked segments whose queries[marker] is a non-empty mapping, and exactly
\* one leading separator.
GenerateRenderingStated ==
  generatedRegistered =>
    /\ last.out.kind = "string"
    /\ last.out.string =
         rendering(generatedSegments, last.params, last.queries,
                   {j \in 1..Len(generatedSegments) :
                      isNonEmptyMapping(last.queries, generatedSegments[j].query)})
    /\ charAt(last.out.string, 1) = <<"/">>
    /\ charAt(last.out.string, 2) # <<"/">>

\* C11: generate for a registered name returns the concatenation, over the
\* full segment sequence, of separator + rendered text, ";" + encoded query
\* appended exactly after the marked segments whose queries[marker] has a
\* non-empty encoding; the result begins with a separator, and with exactly
\* one when the first segment renders a non-empty text.
GenerateRendering ==
  generatedRegistered =>
    /\ last.out.kind = "string"
    /\ last.out.string =
         rendering(generatedSegments, last.params, last.queries,
                   {j \in 1..Len(generatedSegments) :
                      hasEncoding(last.queries, generatedSegments[j].query)})
    /\ charAt(last.out.string, 1) = <<"/">>
    /\ renderedText(generatedSegments[1], last.params) # <<>> =>
         charAt(last.out.string, 2) # <<"/">>

\* a generate call that appended a query to a two-level chain
GenerateRenderingWitness ==
  /\ generatedRegistered
  /\ Len(names[last.name].handlers) = 2
  /\ last.out.kind = "string"
  /\ indexOf(last.out.string, <<";">>) # 0

\* the keys of the children of a state, in child order
childKeys(heap, st) == [i \in 1..Len(heap[st].nextStates) |-> heap[heap[st].nextStates[i]].segmentRegex]

\* C12: no two children of the same node have an identical regex key, the
\* root has no regex key and is nobody's child, and the root is never
\* terminal.
TrieInvariant ==
  /\ \A st \in 1..Len(states) :
       \A i, j \in 1..Len(states[st].nextStates) :
         i # j => childKeys(states, st)[i] # childKeys(states, st)[j]
  /\ states[rootState].segmentRegex = <<>>
  /\ \A st \in 1..Len(states) : rootState \notin Range(states[st].nextStates)
  /\ ~states[rootState].accepting
  /\ states[rootState].handlers = <<>>

\* two registrations that share their first node and part below it
TrieInvariantWitness ==
  /\ nAdds = 2
  /\ Len(states[rootState].nextStates) = 1
  /\ Len(states[states[rootState].nextStates[1]].nextStates) = 2

\* the two add calls made so far were '/p' and then '/p/n', one level each
addedPostsThenNew ==
  /\ nAdds = 2
  /\ last.op = "add"
  /\ last.routes = <<Level(<<"/", "p", "/", "n">>, "new")>>
  /\ \E st \in 1..Len(states) : states[st].accepting /\ handlerIds(states[st].handlers) = <<"posts">>

\* both templates are recognized, each as its own route
bothRecognized ==
  /\ recognize(states, <<"/", "p">>).kind = "chain"
  /\ handlerIds(recognize(states, <<"/", "p">>).chain) = <<"posts">>
  /\ recognize(states, <<"/", "p", "/", "n">>).kind = "chain"
  /\ handlerIds(recognize(states, <<"/", "p", "/", "n">>).chain) = <<"new">>

\* C13: after registering '/p' and then '/p/n', both paths are recognized and
\* the static p of both templates passes through one child of the root, the
\* only one.
StructuralSharing ==
  addedPostsThenNew => bothRecognized /\ Len(states[rootState].nextStates) = 1

\* the part of C13 about recognition alone
SharingRecognized == addedPostsThenNew => bothRecognized

QueryOps == {"recognize", "generate", "hasRoute", "handlersFor"}

To(path, handler) == [kind |-> "to", path |-> path, handler |-> handler, children |-> <<>>]
ToCallback(path, handler, children) ==
  [kind |-> "callback", path |-> path, handler |-> handler, children |-> children]
ToNoParam(path, handler) ==
  [kind |-> "noparam", path |-> path, handler |-> handler, children |-> <<>>]
Scope(path, children) == [kind |-> "scope", path |-> path, handler |-> NoHandler, children |-> children]

\* new Matcher(target)
Matcher == [routes |-> <<>>, children |-> <<>>]

\* the calls of a callback body from the i-th on, made on the match function
\* generateMatch(startingPath, matcher): Target.to with Matcher.add and
\* Matcher.addChild, or the nested form of the match function.  The result
\* is the matcher as the calls leave it and whether one of them threw.
RECURSIVE callback(_, _, _, _)
callback(calls, i, startingPath, matcher) ==
  IF i > Len(calls) THEN [matcher |-> matcher, thrown |-> FALSE]
  ELSE LET c == calls[i]
           path == startingPath \o c.path
           added == [matcher EXCEPT !.routes = setKey(@, path, c.handler)]
       IN CASE c.kind = "scope" ->
                 LET nested == callback(c.children, 1, path, matcher)
                 IN IF nested.thrown THEN nested
                    ELSE callback(calls, i + 1, startingPath, nested.matcher)
            [] c.kind = "to" -> callback(calls, i + 1, startingPath, added)
            [] c.kind = "noparam" -> [matcher |-> added, thrown |-> TRUE]
            [] c.kind = "callback" ->
                 LET child == callback(c.children, 1, path, Matcher)
                     withChild == [added EXCEPT !.children = setKey(@, path, child.matcher)]
                 IN IF child.thrown THEN [matcher |-> withChild, thrown |-> TRUE]
                    ELSE callback(calls, i + 1, startingPath, withChild)

\* the sum of routeArray[i].path.length
RECURSIVE pathLength(_)
pathLength(routeArray) ==
  IF routeArray = <<>> THEN 0 ELSE Len(Head(routeArray).path) + pathLength(Tail(routeArray))

\* routeArray after addRoute(routeArray, path, handler)
addRoute(routeArray, path, handler) ==
  Append(routeArray, Level(substrFrom(path, pathLength(routeArray)), handler))

\* matcher.children is a plain object: children[path] of a path that names a
\* member of Object.prototype is that member, which is truthy and has no
\* routes
ObjectPrototypePaths ==
  { <<"c", "o", "n", "s", "t", "r", "u", "c", "t", "o", "r">>,
    <<"t", "o", "S", "t", "r", "i", "n", "g">>,
    <<"v", "a", "l", "u", "e", "O", "f">> }

\* eachRoute(baseRoute, matcher, callback): the route arrays the callback is
\* called with, in order, from the i-th route of the matcher on
RECURSIVE eachRoute(_, _, _)
eachRoute(baseRoute, matcher, i) ==
  IF i > Len(matcher.routes) THEN <<>>
  ELSE LET path == matcher.routes[i].k
           routeArray == addRoute(baseRoute, path, matcher.routes[i].v)
       IN (IF has(matcher.children, path)
           THEN eachRoute(routeArray, lookup(matcher.children, path), 1)
           ELSE IF path \in ObjectPrototypePaths THEN <<>>
           ELSE <<routeArray>>)
          \o eachRoute(baseRoute, matcher, i + 1)

\* this.add(route) for the first n route arrays, in order
RECURSIVE addAll(_, _, _, _)
addAll(heap, registry, routeArrays, n) ==
  IF n = 0 THEN [heap |-> heap, registry |-> registry]
  ELSE LET done == addAll(heap, registry, routeArrays, n - 1)
       IN add(done.heap, done.registry, routeArrays[n], NoName)

\* the outcome of map: the trie and the registry after it, the route arrays
\* it passed to add, and whether it threw
Mapped(heap, registry, adds) ==
  [trie |-> addAll(heap, registry, adds, Len(adds)), adds |-> adds, thrown |-> FALSE]
ThrownMap(heap, registry) ==
  [trie |-> [heap |-> heap, registry |-> registry], adds |-> <<>>, thrown |-> TRUE]

\* map flattening what was declared even when the callback threw
mapFlushing(heap, registry, calls) ==
  LET declared == callback(calls, 1, <<>>, Matcher)
  IN [Mapped(heap, registry, eachRoute(<<>>, declared.matcher, 1))
        EXCEPT !.thrown = declared.thrown]

\* RouteRecognizer.prototype.map(callback)
map(heap, registry, calls) ==
  LET declared == callback(calls, 1, <<>>, Matcher)
  IN IF declared.thrown THEN ThrownMap(heap, registry)
     ELSE Mapped(heap, registry, eachRoute(<<>>, declared.matcher, 1))

\* the declarations given to map
Declarations ==
  { <<To(<<"/", "p">>, "posts")>>,
    <<ToCallback(<<"/", "p">>, "posts",
        <<To(<<"/", "n">>, "new"), To(<<"/", ":", "i">>, "post")>>)>>,
    <<ToCallback(<<"/", "p">>, "posts",
        <<ToCallback(<<"/", ":", "i">>, "post", <<To(<<"/", "n">>, "edit")>>)>>),
      To(<<"/", "f", "/", "*", "s">>, "file")>>,
    <<ToCallback(<<>>, "index", <<To(<<"/", "p">>, "posts")>>)>>,
    <<ToCallback(<<"/", "p">>, "posts", <<>>)>>,
    <<Scope(<<"/", "p">>, <<To(<<"/", "n">>, "new")>>)>>,
    <<To(<<"/", "p">>, "posts"), ToNoParam(<<"/", "n">>, "new")>>,
    <<ToCallback(<<"/", "p">>, "posts", <<To(<<"/", "n">>, "new"), ToNoParam(<<"/", ":", "i">>, "post")>>)>>,
    <<To(<<"c", "o", "n", "s", "t", "r", "u", "c", "t", "o", "r">>, "posts")>> }

Map(calls) ==
  /\ nAdds < MaxAdds
  /\ \E r \in {map(states, names, calls)} :
       /\ states' = r.trie.heap
       /\ names' = r.trie.registry
       /\ nAdds' = nAdds + Len(r.adds)
       /\ last' = [op |-> "map", calls |-> calls, adds |-> r.adds, thrown |-> r.thrown]
  /\ UNCHANGED <<passed, emberRoute>>

NextMap ==
  \/ \E calls \in Declarations : Map(calls)
  \/ \E path \in Paths : Recognize(path)

SpecMap == Init /\ [][NextMap]_vars

\* the call, or one nested in it, passes to a callback without a parameter
RECURSIVE hasNoParam(_)
hasNoParam(c) == c.kind = "noparam" \/ \E i \in 1..Len(c.children) : hasNoParam(c.children[i])

\* C15: a map call in which Target.to is given a callback that declares no
\* parameter raises an error and adds no registration: the trie and the
\* registry are the same as before the call.
MapConfigurationError ==
  [][(last'.op = "map" /\ \E i \in 1..Len(last'.calls) : hasNoParam(last'.calls[i])) =>
       last'.thrown /\ states' = states /\ names' = names]_vars

\* a map call that threw after it had declared a route, on a trie that
\* already holds a registration
MapConfigurationErrorWitness ==
  /\ last.op = "map"
  /\ last.thrown
  /\ Len(last.calls) = 2
  /\ nAdds >= 1
  /\ Len(states) > 1

\* the leaves of a declared route tree: the declared paths without a child
\* matcher, each with its full path and the chain of {path, handler} entries
\* of its ancestors and itself, root to leaf.  startingPath is the path
\* declared so far, chain the entries of the ancestors, and pending the part
\* of startingPath no ancestor's entry holds yet.
RECURSIVE leaves(_, _, _, _)
leaves(calls, startingPath, chain, pending) ==
  UNION { LET c == calls[i]
              full == startingPath \o c.path
              entry == Level(pending \o c.path, c.handler)
          IN CASE c.kind = "to" -> {[full |-> full, chain |-> Append(chain, entry)]}
               [] c.kind = "noparam" -> {}
               [] c.kind = "callback" -> leaves(c.children, full, Append(chain, entry), <<>>)
               [] c.kind = "scope" -> leaves(c.children, full, chain, pending \o c.path)
          : i \in 1..Len(calls) }

\* the concatenation of the relative paths of a chain
chainPath(chain) == concat([l \in 1..Len(chain) |-> chain[l].path])

\* the map call made add exactly once per leaf of the declared tree, with the
\* chain of the leaf, whose relative paths concatenate to its full path
flattened ==
  LET declared == leaves(last.calls, <<>>, <<>>, <<>>)
  IN /\ Len(last.adds) = Cardinality(declared)
     /\ Range(last.adds) = {leaf.chain : leaf \in declared}
     /\ \A leaf \in declared : chainPath(leaf.chain) = leaf.full

\* C16: a map call that returns has made add exactly once per leaf of the
\* declared route tree and never for an inner node; each chain lists the
\* {path, handler} entries root to leaf, and the concatenation of its
\* relative paths is the full declared path of the leaf.
DslFlattening == (last.op = "map" /\ ~last.thrown) => flattened

\* the same for the declarations none of whose full paths names a member of
\* Object.prototype
DslFlatteningOwnPaths ==
  (/\ last.op = "map"
   /\ ~last.thrown
   /\ \A leaf \in leaves(last.calls, <<>>, <<>>, <<>>) : leaf.full \notin ObjectPrototypePaths) =>
    flattened

(***************************************************************************)
(* A route, its setup calls and the transitionTo and replaceWith calls made *)
(* on it, inside the redirect hook or outside of setup.                     *)
(***************************************************************************)
MaxTransitions == 3

Contexts == {"undefined", "model"}
Controllers == {"undefined", "controller"}

\* a route that defines the deprecated hooks or not
InitRoute ==
  /\ states = <<State(<<>>)>>
  /\ names = [n \in {} |-> 0]
  /\ nAdds = 0
  /\ passed = {}
  /\ last = [op |-> "new"]
  /\ emberRoute \in {Route(a, b) : a, b \in BOOLEAN}

TransitionTo ==
  /\ emberRoute.transitions < MaxTransitions
  /\ emberRoute' = transitionTo(emberRoute)
  /\ UNCHANGED <<states, names, nAdds, passed, last>>

ReplaceWith ==
  /\ emberRoute.transitions < MaxTransitions
  /\ emberRoute' = replaceWith(emberRoute)
  /\ UNCHANGED <<states, names, nAdds, passed, last>>

Setup(context) ==
  /\ emberRoute.pc = "idle"
  /\ emberRoute' = setup(emberRoute, context)
  /\ UNCHANGED <<states, names, nAdds, passed, last>>

SetupAfterRedirect(controller) ==
  /\ emberRoute.pc = "redirect"
  /\ emberRoute' = setupAfterRedirect(emberRoute, controller)
  /\ UNCHANGED <<states, names, nAdds, passed, last>>

NextRoute ==
  \/ TransitionTo
  \/ ReplaceWith
  \/ \E context \in Contexts : Setup(context)
  \/ \E controller \in Controllers : SetupAfterRedirect(controller)

SpecRoute == InitRoute /\ [][NextRoute]_vars

\* what setup calls once it is past the test of redirected
PastRedirect ==
  {"controllerFor", "set model", "setupController", "setupControllers",
   "renderTemplate", "renderTemplates"}

\* C17: a setup during whose redirect hook transitionTo or replaceWith was
\* called returns false without a controller lookup, setupController or
\* renderTemplate; a transitionTo or replaceWith call made outside of setup
\* does not mark the route as redirected; and every setup call starts with
\* redirected cleared.
RedirectDuringSetup ==
  [][/\ (/\ emberRoute'.pc = "idle"
         /\ emberRoute'.returned # "none"
         /\ \E i \in 1..Len(emberRoute'.calls) : emberRoute'.calls[i] \in {"transitionTo", "replaceWith"}) =>
          /\ emberRoute'.returned = "false"
          /\ \A i \in 1..Len(emberRoute'.calls) : emberRoute'.calls[i] \notin PastRedirect
     /\ (emberRoute.pc = "idle" /\ emberRoute'.transitions # emberRoute.transitions) =>
          emberRoute'.redirected = emberRoute.redirected
     /\ (emberRoute.pc = "idle" /\ emberRoute'.pc = "redirect") => emberRoute'.redirected = "false"]_vars

\* a setup that returned false after a replaceWith inside its redirect hook,
\* on a route a transition had been asked of before
RedirectDuringSetupWitness ==
  /\ emberRoute.pc = "idle"
  /\ emberRoute.returned = "false"
  /\ emberRoute.calls = <<"redirect", "replaceWith">>
  /\ emberRoute.transitions = 2

\* the path recognized is the one generate returned for a name registered
\* with the root chain, with a query for its handler
recognizedRootQuery ==
  /\ last.op = "recognize"
  /\ last.of # NoCall
  /\ isOwn(names, last.of.name)
  /\ handlerIds(names[last.of.name].handlers) = <<"index">>
  /\ hasEncoding(last.of.queries, "index")

\* C18: the path generate returns for the named root route with a non-empty
\* query, '/;k=n', is recognized as that route.
RootRouteQuery ==
  recognizedRootQuery =>
    last.out.kind = "chain" /\ handlerIds(last.out.chain) = <<"index">>

\* the trie `before` is kept in the trie `after`: every node is still there
\* under its key and with its children in their places, and every terminal
\* is still terminal
keeps(after, before) ==
  /\ Len(after) >= Len(before)
  /\ \A st \in 1..Len(before) :
       /\ after[st].segmentRegex = before[st].segmentRegex
       /\ Len(after[st].nextStates) >= Len(before[st].nextStates)
       /\ SubSeq(after[st].nextStates, 1, Len(before[st].nextStates)) = before[st].nextStates
       /\ before[st].accepting => after[st].accepting

\* C20: across an add, a path that recognize matched is still matched, a
\* name for which hasRoute was true stays true, and the trie only grows: no
\* node, terminal marking or registry entry is removed.
MonotonicRecognition ==
  [][last'.op = "add" =>
       /\ (last.op = "recognize" /\ last.out.kind = "chain") =>
            recognize(states', last.path).kind = "chain"
       /\ (last.op = "hasRoute" /\ last.out) => hasRoute(names', last.name)
       /\ \A name \in RouteNames : hasRoute(names, name) => hasRoute(names', name)
       /\ DOMAIN names \subseteq DOMAIN names'
       /\ keeps(states', states)]_vars

\* an add made after a recognize call that matched, which put a second
\* terminal on the way of that path
MonotonicRecognitionWitness ==
  /\ last.op = "add"
  /\ nAdds = 2
  /\ recognize(states, <<"/", "p", "/", "n">>).kind = "chain"
  /\ Cardinality(terminalsFor(states, <<"/", "p", "/", "n">>)) = 2

(***************************************************************************)
(* Registrations made again: templates that differ in parameter names, in   *)
(* handlers or in level boundaries only.                                    *)
(***************************************************************************)
AgainChains ==
  { <<Level(<<"/", "p", "/", ":", "i">>, "post")>>,
    <<Level(<<"/", "p", "/", ":", "s">>, "show")>>,
    <<Level(<<"/", "p">>, "posts")>>,
    <<Level(<<"/", "p">>, "new")>>,
    <<Level(<<"/", "p">>, "posts"), Level(<<"/", ":", "i">>, "post")>>,
    <<Level(<<"/", "p">>, "list"), Level(<<"/", ":", "s">>, "show")>>,
    <<Level(<<>>, "index")>> }

AgainPaths == {<<"/", "p", "/", "5">>, <<"/", "p">>, <<"/">>, <<"/", "p", "/", "5", ";", "k">>}

NextAgain ==
  \/ \E routes \in AgainChains, as \in AsNames : Add(routes, as)
  \/ \E path \in AgainPaths : Recognize(path)
  \/ \E name \in RouteNames : HandlersFor(name)

SpecAgain == Init /\ [][NextAgain]_vars

\* the trie keys of a chain, one per segment: the anchored regex fragment of
\* the segment, and the anchored empty fragment for a chain without segments
fragmentsOf(chain) ==
  IF chainSegments(chain, 1) = <<>> THEN <<<<Bol, Eol>>>>
  ELSE [j \in 1..Len(chainSegments(chain, 1)) |->
          <<Bol>> \o regex(chainSegments(chain, 1)[j]) \o <<Eol>>]

\* the terminals of the trie an earlier registration with these fragments left
registeredAs(heap, chain) ==
  {st \in 1..Len(heap) :
     /\ heap[st].accepting
     /\ [k \in 1..Len(lineage(heap, st)) |-> heap[lineage(heap, st)[k]].segmentRegex]
          = fragmentsOf(chain)}

\* the handler chain and the counters of a chain, read off its templates
handlersOf(chain) ==
  [l \in 1..Len(chain) |-> [handler |-> chain[l].handler,
                             names |-> parse(chain[l].path, <<>>, NoTypes).nms]]
countersOf(chain) ==
  LET segs == chainSegments(chain, 1)
      count(type) == Cardinality({j \in 1..Len(segs) : segs[j].type = type})
  IN [statics |-> count("static"), dynamics |-> count("dynamic"), stars |-> count("star")]

\* the names of the parameters a result binds, level by level
boundNames(result) ==
  [l \in 1..Len(result) |-> [i \in 1..Len(result[l].params) |-> result[l].params[i].k]]

\* C19: an add whose chain has the per-segment fragments of an earlier
\* registration creates no trie node and replaces the handler chain and the
\* counters of the existing terminal; recognize of a path that reaches only
\* that terminal then returns the handlers and the parameter names of the
\* later registration; and an add with an options.as given before replaces
\* the registry entry generate and handlersFor use.
ReRegistration ==
  [][last'.op = "add" =>
       /\ \A st \in registeredAs(states, last'.routes) :
            /\ Len(states') = Len(states)
            /\ states'[st].handlers = handlersOf(last'.routes)
            /\ states'[st].types = countersOf(last'.routes)
            /\ \A path \in AgainPaths :
                 terminalsFor(states', path) = {st} =>
                   /\ recognize(states', path).kind = "chain"
                   /\ handlerIds(recognize(states', path).chain) = handlerIds(last'.routes)
                   /\ boundNames(recognize(states', path).chain)
                        = [l \in 1..Len(last'.routes) |-> handlersOf(last'.routes)[l].names]
       /\ (last'.as # NoName /\ last'.as \in DOMAIN names) =>
            /\ names'[last'.as] = [segments |-> fullSegments(last'.routes),
                                   handlers |-> handlersOf(last'.routes)]
            /\ handlersFor(names', last'.as) = Returned(handlersOf(last'.routes))]_vars

\* '/p/:s' registered over '/p/:i' under the name given before: the trie has
\* the three nodes of one registration and its terminal the later handler
ReRegistrationWitness ==
  /\ last.op = "add"
  /\ nAdds = 2
  /\ last.as = "R"
  /\ last.routes = <<Level(<<"/", "p", "/", ":", "s">>, "show")>>
  /\ Len(states) = 3
  /\ handlerIds(recognize(states, <<"/", "p", "/", "5">>).chain) = <<"show">>
====
